---- MODULE Spec2Model ----
(***************************************************************************)
(* Model of claude_csv_report_generator.py: the CSV reader, the Claude     *)
(* client, the report orchestrator (weekly batch and monthly sector        *)
(* report), the analytics file and the two Flask endpoints that share one  *)
(* orchestrator.                                                           *)
(*                                                                         *)
(* Strings are sequences of one-character strings.  An empty sequence in a *)
(* CSV column stands for an empty cell, which pandas loads as float NaN.   *)
(***************************************************************************)
EXTENDS Integers, Sequences, FiniteSets, TLC

\* ---------------------------------------------------------------- bounds
MaxProspects == 2   \* rows of the prospects CSV
MaxScore == 2       \* tier scores are 1..MaxScore
MaxSubjects == 2    \* subjects (prospects, sector reports) taken up in one behaviour
MaxTicks == 1       \* times the date changes in one behaviour
MaxDay == 1         \* days of a month
MaxLen == 3         \* length of the strings given to the sector filter
MaxRows == 2        \* rows of the market CSV given to the sector filter
MaxSalary == 2      \* average_salary values are 0..MaxSalary

Threads == {1, 2}

\* ---------------------------------------------------------------- strings
Min(a, b) == IF a < b THEN a ELSE b
Max(a, b) == IF a > b THEN a ELSE b

SeqsUpTo(S, n) == UNION {[1..k -> S] : k \in 0..n}

\* str.lower() on the characters the model uses
LowerChar(c) ==
    CASE c = "A" -> "a"
      [] c = "L" -> "l"
      [] c = "T" -> "t"
      [] OTHER -> c

UpperChar(c) ==
    CASE c = "a" -> "A"
      [] c = "l" -> "L"
      [] c = "t" -> "T"
      [] c = "b" -> "B"
      [] OTHER -> c

IsLetter(c) == c \in {"a", "A", "l", "L", "t", "T", "b", "B"}

Lower(s) == [i \in 1..Len(s) |-> LowerChar(s[i])]

\* str.title(): first letter of every word upper case, the others lower case
Title(s) ==
    [i \in 1..Len(s) |->
        IF i = 1 \/ ~IsLetter(s[i - 1]) THEN UpperChar(s[i]) ELSE LowerChar(s[i])]

\* str.replace(' ', '_')
ReplaceSpaces(s) == [i \in 1..Len(s) |-> IF s[i] = " " THEN "_" ELSE s[i]]

\* Python's `needle in hay` on strings, scanning the start offsets left to right
RECURSIVE ContainsFrom(_, _, _)
ContainsFrom(needle, hay, i) ==
    IF i + Len(needle) - 1 > Len(hay) THEN FALSE
    ELSE IF SubSeq(hay, i, i + Len(needle) - 1) = needle THEN TRUE
    ELSE ContainsFrom(needle, hay, i + 1)

Contains(needle, hay) == ContainsFrom(needle, hay, 1)

STR_all == <<"a", "l", "l">>

\* ---------------------------------------------------------------- data
NaN == <<>>   \* an empty CSV cell, loaded by pandas as float NaN

TierScores == 1..MaxScore
ProspectTables(names, scores) ==
    SeqsUpTo([company_name : names, tier_score : scores], MaxProspects)
\* --prospects / ?prospects= is parsed with type=int: negative values pass
Limits == (0 - 1)..MaxProspects

\* sector column and average_salary column of the market CSV
SectorNames == {NaN, <<"A", "l">>}
MarketRecs == [sector : SectorNames, average_salary : {1}]
MarketTables == SeqsUpTo(MarketRecs, 1)
\* ?sector= / --sector values given to the monthly report by the orchestrated runs
SectorArgs == {STR_all, <<"a">>}

\* ---------------------------------------------------------------- CSVDataManager
IsSortedDesc(s) == \A i \in 1..(Len(s) - 1) : s[i].tier_score >= s[i + 1].tier_score

\* faulty variant of SortValues: ascending=True
SortValuesAscending(table) ==
    {[i \in 1..Len(table) |-> table[p[i]]] :
        p \in {q \in [1..Len(table) -> 1..Len(table)] :
                 /\ \A i, j \in 1..Len(table) : i # j => q[i] # q[j]
                 /\ \A i \in 1..(Len(table) - 1) :
                       table[q[i]].tier_score <= table[q[i + 1]].tier_score}}

\* df.sort_values('tier_score', ascending=False): the default sort is not
\* stable, so rows with equal scores come out in any order
SortValues(table) ==
    {[i \in 1..Len(table) |-> table[p[i]]] :
        p \in {q \in [1..Len(table) -> 1..Len(table)] :
                 /\ \A i, j \in 1..Len(table) : i # j => q[i] # q[j]
                 /\ IsSortedDesc([i \in 1..Len(table) |-> table[q[i]]])}}

\* DataFrame.head(n): the first n rows, or all but the last |n| rows when n < 0
DfHead(s, n) ==
    IF n >= 0 THEN SubSeq(s, 1, Min(n, Len(s)))
    ELSE SubSeq(s, 1, Max(0, Len(s) + n))

\* pd.read_csv: the rows of the file; the except branch makes a failed read
\* the same as a file without rows
GetRows(readOk, table) == IF readOk THEN table ELSE <<>>

\* get_prospects: the possible return values; [] when the read raises
GetProspects(readOk, table, limit) ==
    IF readOk THEN {DfHead(s, limit) : s \in SortValues(table)} ELSE {<<>>}

\* get_market_data: [] when the read raises
GetMarketData(readOk, table) == IF readOk THEN table ELSE <<>>

HeaderRow == [kind |-> "header"]

\* the row save_report_metadata appends; stamp is datetime.now() at the call
MetaRow(report_data, stamp) ==
    [kind |-> "data", timestamp |-> stamp, report_type |-> report_data.type,
     company_name |-> report_data.company_name, file_path |-> report_data.file_path,
     success |-> report_data.success]

\* ---------------------------------------------------------------- ClaudeClient
ApiErrors == {"timeout"}

\* what the Anthropic API call does: a text, or an exception with a message
ApiOutcomes == {[ok |-> TRUE, text |-> "report"]} \cup {[ok |-> FALSE, text |-> e] : e \in ApiErrors}

ErrorText(e) == <<"Error generating report: ", e>>

\* faulty variant of GenerateReport: the API exception leaves generate_report
GenerateReportRaising(fmtOk, api) ==
    IF ~fmtOk \/ ~api.ok THEN [raised |-> TRUE, text |-> <<>>]
    ELSE [raised |-> FALSE, text |-> <<api.text>>]

\* generate_report: formatting the context (lines 136-163) is outside the try
\* block and can raise; an exception of the API call is turned into a text
GenerateReport(fmtOk, api) ==
    IF ~fmtOk THEN [raised |-> TRUE, text |-> <<>>]
    ELSE IF api.ok THEN [raised |-> FALSE, text |-> <<api.text>>]
    ELSE [raised |-> FALSE, text |-> ErrorText(api.text)]

\* ---------------------------------------------------------------- ReportGenerator
WeeklyPath(company, date) == <<"Weekly_Report", ReplaceSpaces(company), date>>
MonthlyPath(sector, month) == <<"Monthly_Report", sector, month>>

WeeklyChunks(company, date, content) ==
    << <<"# Weekly Recruitment Report - ", company>>, <<"**Generated:** ", date>>, content >>
MonthlyChunks(sector, date, content) ==
    << <<"# Monthly Sector Report - ", Title(sector)>>, <<"**Generated:** ", date>>, content >>

\* faulty variant of SectorMatches: the comparison keeps the case
SectorMatchesCase(sector, item) == Contains(sector, item.sector)

\* sector filter of generate_monthly_report (market rows)
SectorMatches(sector, item) == Contains(Lower(sector), Lower(item.sector))

\* item.get('sector', '').lower() raises AttributeError on a NaN cell
FilterRaises(sector, market_data) ==
    sector # STR_all /\ \E i \in 1..Len(market_data) : market_data[i].sector = NaN

FilterMarket(sector, market_data) ==
    IF sector # STR_all THEN SelectSeq(market_data, LAMBDA item : SectorMatches(sector, item))
    ELSE market_data

RECURSIVE SumSalary(_)
SumSalary(md) == IF md = <<>> THEN 0 ELSE md[1].average_salary + SumSalary(Tail(md))

\* faulty variant of AvgSalary: rounds to the nearest integer instead of down
AvgSalaryRounded(md) == IF md # <<>> THEN (2 * SumSalary(md) + Len(md)) \div (2 * Len(md)) ELSE 0

\* 'avg_salary': sum(...) // len(market_data) if market_data else 0
AvgSalary(md) == IF md # <<>> THEN SumSalary(md) \div Len(md) ELSE 0

MonthlyContext(sector, market_data) ==
    [sector |-> sector, market_segments |-> Len(market_data),
     avg_salary |-> AvgSalary(market_data)]

\* ---------------------------------------------------------------- state
VARIABLES
    files,           \* OUTPUT_DIR: path -> sequence of chunks written to the report file
    analyticsExists, \* report_analytics.csv exists
    analytics,       \* rows of report_analytics.csv
    today,           \* the clock: <<month, day>>
    now,             \* ordinal of the last datetime.now() taken for a metadata row
    ticks,           \* times the date has changed
    subjects,        \* subjects the requests so far have used up
    pc,              \* per request thread: position in the handler
    prospects,       \* generate_weekly_reports: the ranked prospects
    idx,             \* generate_weekly_reports: i of the for loop
    report_files,    \* generate_weekly_reports: the list being returned
    report_content,  \* text returned by generate_report
    report_data,     \* the dict given to save_report_metadata
    file_path,       \* path of the file being written
    context,         \* generate_monthly_report: the aggregated context
    result,          \* what the handler returned to the endpoint
    csv,             \* history: the rows the request read and what it was asked
    log,             \* history: the events of the request, in order
    rows0,           \* history: data rows in the analytics file when the request began
    genlog,          \* history: completed save_report_metadata calls, in order
    pin,             \* input of the sector filter and aggregate
    pout             \* their output

fsVars == <<files, analyticsExists, analytics, today, now, ticks, subjects>>
locVars == <<pc, prospects, idx, report_files, report_content, report_data, file_path, context, result>>
histVars == <<csv, log, rows0, genlog>>
pureVars == <<pin, pout>>
vars == <<fsVars, locVars, histVars, pureVars>>

NoPath == <<>>
NoCsv == [kind |-> "none", rows |-> <<>>, limit |-> 0, sector |-> <<>>]
NoResult == [returned |-> FALSE, success |-> FALSE, reports |-> <<>>]
NoData == [type |-> "none", company_name |-> <<>>, file_path |-> NoPath, success |-> FALSE]
NoContext == [sector |-> <<>>, market_segments |-> 0, avg_salary |-> 0]
NoPure == [done |-> FALSE, raised |-> FALSE, rows |-> <<>>, avg_salary |-> 0]

\* history events: "start" the loop body began for prospect i; "api" the API was
\* called (ok: it answered); "text" generate_report returned; "file" the file
\* step ran on path (ok: every write reached the file); "meta"
\* save_report_metadata ended (ok: it returned)
Event(ev, i, ok, path) == [ev |-> ev, i |-> i, ok |-> ok, path |-> path]
Logged(t, ev) == SelectSeq(log[t], LAMBDA e : e.ev = ev)

DataRowsOf(rows) == SelectSeq(rows, LAMBDA r : r.kind = "data")
DataRows == IF analyticsExists THEN Len(DataRowsOf(analytics)) ELSE 0

InitBase ==
    /\ files = <<>>
    /\ analyticsExists = FALSE
    /\ analytics = <<>>
    /\ today = <<1, 1>>
    /\ now = 0
    /\ ticks = 0
    /\ subjects = 0
    /\ pc = [t \in Threads |-> "idle"]
    /\ prospects = [t \in Threads |-> <<>>]
    /\ idx = [t \in Threads |-> 0]
    /\ report_files = [t \in Threads |-> <<>>]
    /\ report_content = [t \in Threads |-> <<>>]
    /\ report_data = [t \in Threads |-> NoData]
    /\ file_path = [t \in Threads |-> NoPath]
    /\ context = [t \in Threads |-> NoContext]
    /\ result = [t \in Threads |-> NoResult]
    /\ csv = [t \in Threads |-> NoCsv]
    /\ log = [t \in Threads |-> <<>>]
    /\ rows0 = [t \in Threads |-> 0]
    /\ genlog = <<>>

Init ==
    /\ InitBase
    /\ pin = [sector |-> <<>>, table |-> <<>>]
    /\ pout = NoPure

\* ---------------------------------------------------------------- file system
\* open(path, 'w') truncates or creates the file; k of the chunks reach it
WriteFile(fs, path, chunks, k) ==
    [q \in (DOMAIN fs) \cup {path} |-> IF q = path THEN SubSeq(chunks, 1, k) ELSE fs[q]]

\* faulty variant of NeedsHeader: the header is written on every call
AlwaysHeader(exists) == TRUE

\* save_report_metadata: `if not metadata_file.exists()`
NeedsHeader(exists) == ~exists

\* open(metadata_file, 'w') and the header row
WithHeader(rows) == <<HeaderRow>>

\* open(metadata_file, 'a') and one row
WithRow(rows, row) == Append(rows, row)

\* the next day, which after the last day of a month is the first of the next
NextDate(d) == IF d[2] < MaxDay THEN <<d[1], d[2] + 1>> ELSE <<d[1] + 1, 1>>

\* midnight passes.  Only the file step reads the date (lines 245, 250, 305,
\* 310), so a change of date is taken when a request is about to read it.
Tick ==
    /\ ticks < MaxTicks
    /\ \E t \in Threads : pc[t] \in {"w_file", "m_file"}
    /\ ticks' = ticks + 1
    /\ today' = NextDate(today)
    /\ UNCHANGED <<files, analyticsExists, analytics, now, subjects, locVars, histVars, pureVars>>

\* ---------------------------------------------------------------- generate_weekly_reports
\* faulty variant of LoopAfterExcept: the handler ends the loop (break)
LoopAbort(i, n) == n + 1

\* `except Exception: ... continue` of the batch loop
LoopAfterExcept(i, n) == i + 1

\* faulty variant of FilesAfterWrite: the path is not added to the list
FilesForgotten(rf, path) == rf

\* report_files.append(str(file_path)) after the with block
FilesAfterWrite(rf, path) == Append(rf, path)

\* the dict of lines 256-262
WeeklyData(company, path) ==
    [type |-> "weekly", company_name |-> company, file_path |-> path, success |-> TRUE]

\* the dict of lines 314-320
MonthlyData(sector, path) ==
    [type |-> "monthly", company_name |-> <<"Sector_">> \o sector, file_path |-> path,
     success |-> TRUE]

Except(t) ==
    /\ idx' = [idx EXCEPT ![t] = LoopAfterExcept(idx[t], Len(prospects[t]))]
    /\ pc' = [pc EXCEPT ![t] = "w_loop"]

\* lines 225-230
WeeklyRequest(t, limit, readOk, table, single) ==
    /\ pc[t] = "idle"
    /\ single => subjects = 0
    /\ \E ps \in GetProspects(readOk, table, limit) :
          /\ subjects + Len(ps) <= MaxSubjects
          /\ subjects' = IF single THEN MaxSubjects ELSE subjects + Len(ps)
          /\ prospects' = [prospects EXCEPT ![t] = ps]
    /\ idx' = [idx EXCEPT ![t] = 1]
    /\ report_files' = [report_files EXCEPT ![t] = <<>>]
    /\ pc' = [pc EXCEPT ![t] = "w_loop"]
    /\ csv' = [csv EXCEPT ![t] = [kind |-> "weekly", rows |-> GetRows(readOk, table),
                                  limit |-> limit, sector |-> <<>>]]
    /\ rows0' = [rows0 EXCEPT ![t] = DataRows]
    /\ UNCHANGED <<files, analyticsExists, analytics, today, now, ticks, report_content,
                   report_data, file_path, context, result, log, genlog, pureVars>>

\* loop body, lines 234-241: the context is formatted, then the API is called
WeeklyGenerate(t, fmtOk, api) ==
    /\ pc[t] = "w_loop"
    /\ idx[t] <= Len(prospects[t])
    /\ LET r == GenerateReport(fmtOk, api)
           i == idx[t]
           called == IF fmtOk THEN <<Event("api", i, api.ok, NoPath)>> ELSE <<>>
           back == IF r.raised THEN <<>> ELSE <<Event("text", i, TRUE, NoPath)>>
       IN  /\ log' = [log EXCEPT ![t] = @ \o <<Event("start", i, TRUE, NoPath)>> \o called \o back]
           /\ IF r.raised
                THEN /\ Except(t)
                     /\ UNCHANGED report_content
                ELSE /\ report_content' = [report_content EXCEPT ![t] = r.text]
                     /\ pc' = [pc EXCEPT ![t] = "w_file"]
                     /\ idx' = idx
    /\ UNCHANGED <<fsVars, prospects, report_files, report_data, file_path, context, result,
                   csv, rows0, genlog, pureVars>>

\* loop body, lines 244-253: the file name, the file, the returned list
WeeklyWrite(t, openOk, k) ==
    /\ pc[t] = "w_file"
    /\ LET company == prospects[t][idx[t]].company_name
           path == WeeklyPath(company, today)
           chunks == WeeklyChunks(company, today, report_content[t])
       IN  IF company = NaN
             THEN \* NaN.replace raises AttributeError
                  /\ Except(t)
                  /\ UNCHANGED <<files, report_files, report_data, file_path, log>>
             ELSE IF ~openOk
             THEN \* open() raises
                  /\ Except(t)
                  /\ log' = [log EXCEPT ![t] = Append(@, Event("file", idx[t], FALSE, path))]
                  /\ UNCHANGED <<files, report_files, report_data, file_path>>
             ELSE IF k < Len(chunks)
             THEN \* a write or the close raises
                  /\ files' = WriteFile(files, path, chunks, k)
                  /\ Except(t)
                  /\ log' = [log EXCEPT ![t] = Append(@, Event("file", idx[t], FALSE, path))]
                  /\ UNCHANGED <<report_files, report_data, file_path>>
             ELSE /\ files' = WriteFile(files, path, chunks, k)
                  /\ report_files' = [report_files EXCEPT ![t] = FilesAfterWrite(@, path)]
                  /\ file_path' = [file_path EXCEPT ![t] = path]
                  /\ report_data' = [report_data EXCEPT ![t] = WeeklyData(company, path)]
                  /\ log' = [log EXCEPT ![t] = Append(@, Event("file", idx[t], TRUE, path))]
                  /\ pc' = [pc EXCEPT ![t] = "s_exists"]
                  /\ idx' = idx
    /\ UNCHANGED <<analyticsExists, analytics, today, now, ticks, subjects, prospects,
                   report_content, context, result, csv, rows0, genlog, pureVars>>

\* the loop is over: return report_files
WeeklyDone(t) ==
    /\ pc[t] = "w_loop"
    /\ idx[t] > Len(prospects[t])
    /\ pc' = [pc EXCEPT ![t] = "w_return"]
    /\ result' = [result EXCEPT ![t] =
                    [returned |-> TRUE, success |-> TRUE, reports |-> report_files[t]]]
    /\ UNCHANGED <<fsVars, prospects, idx, report_files, report_content, report_data,
                   file_path, context, histVars, pureVars>>

\* ---------------------------------------------------------------- generate_monthly_report
\* an exception leaves generate_monthly_report: the endpoint answers 500
Fail(t) ==
    /\ pc' = [pc EXCEPT ![t] = "m_return"]
    /\ result' = [result EXCEPT ![t] = [returned |-> TRUE, success |-> FALSE, reports |-> <<>>]]

\* lines 277-295: read, filter, aggregate; industryOk is false when a prospect
\* row has an empty industry cell, on which line 286 raises like line 285
MonthlyRequest(t, sector, readOk, table, industryOk, single) ==
    /\ pc[t] = "idle"
    /\ single => subjects = 0
    /\ subjects < MaxSubjects
    /\ subjects' = IF single THEN MaxSubjects ELSE subjects + 1
    /\ csv' = [csv EXCEPT ![t] = [kind |-> "monthly", rows |-> GetMarketData(readOk, table),
                                  limit |-> 0, sector |-> sector]]
    /\ rows0' = [rows0 EXCEPT ![t] = DataRows]
    /\ LET market_data == GetMarketData(readOk, table)
       IN  IF FilterRaises(sector, market_data) \/ (sector # STR_all /\ ~industryOk)
             THEN /\ Fail(t)
                  /\ UNCHANGED context
             ELSE /\ context' = [context EXCEPT ![t] =
                                   MonthlyContext(sector, FilterMarket(sector, market_data))]
                  /\ pc' = [pc EXCEPT ![t] = "m_gen"]
                  /\ UNCHANGED result
    /\ UNCHANGED <<files, analyticsExists, analytics, today, now, ticks, prospects, idx,
                   report_files, report_content, report_data, file_path, log, genlog,
                   pureVars>>

\* lines 297-302
MonthlyGenerate(t, fmtOk, api) ==
    /\ pc[t] = "m_gen"
    /\ LET r == GenerateReport(fmtOk, api)
           called == IF fmtOk THEN <<Event("api", 0, api.ok, NoPath)>> ELSE <<>>
           back == IF r.raised THEN <<>> ELSE <<Event("text", 0, TRUE, NoPath)>>
       IN  /\ log' = [log EXCEPT ![t] = @ \o called \o back]
           /\ IF r.raised
                THEN /\ Fail(t)
                     /\ UNCHANGED report_content
                ELSE /\ report_content' = [report_content EXCEPT ![t] = r.text]
                     /\ pc' = [pc EXCEPT ![t] = "m_file"]
                     /\ UNCHANGED result
    /\ UNCHANGED <<fsVars, prospects, idx, report_files, report_data, file_path, context,
                   csv, rows0, genlog, pureVars>>

\* lines 304-311
MonthlyWrite(t, openOk, k) ==
    /\ pc[t] = "m_file"
    /\ LET sector == context[t].sector
           path == MonthlyPath(sector, today[1])
           chunks == MonthlyChunks(sector, today, report_content[t])
       IN  IF ~openOk
             THEN /\ Fail(t)
                  /\ log' = [log EXCEPT ![t] = Append(@, Event("file", 0, FALSE, path))]
                  /\ UNCHANGED <<files, report_data, file_path>>
             ELSE IF k < Len(chunks)
             THEN /\ files' = WriteFile(files, path, chunks, k)
                  /\ Fail(t)
                  /\ log' = [log EXCEPT ![t] = Append(@, Event("file", 0, FALSE, path))]
                  /\ UNCHANGED <<report_data, file_path>>
             ELSE /\ files' = WriteFile(files, path, chunks, k)
                  /\ file_path' = [file_path EXCEPT ![t] = path]
                  /\ report_data' = [report_data EXCEPT ![t] = MonthlyData(sector, path)]
                  /\ log' = [log EXCEPT ![t] = Append(@, Event("file", 0, TRUE, path))]
                  /\ pc' = [pc EXCEPT ![t] = "s_exists"]
                  /\ UNCHANGED result
    /\ UNCHANGED <<analyticsExists, analytics, today, now, ticks, subjects, prospects, idx,
                   report_files, report_content, context, csv, rows0, genlog, pureVars>>

\* ---------------------------------------------------------------- save_report_metadata
\* an exception leaves save_report_metadata: the batch loop catches it, the
\* monthly report lets it reach the endpoint
SaveRaise(t) ==
    /\ log' = [log EXCEPT ![t] = Append(@, Event("meta", idx[t], FALSE, file_path[t]))]
    /\ IF report_data[t].type = "weekly"
         THEN Except(t) /\ UNCHANGED result
         ELSE Fail(t) /\ UNCHANGED idx

\* line 108
SaveExists(t) ==
    /\ pc[t] = "s_exists"
    /\ pc' = [pc EXCEPT ![t] = IF NeedsHeader(analyticsExists) THEN "s_header" ELSE "s_append"]
    /\ UNCHANGED <<fsVars, prospects, idx, report_files, report_content, report_data,
                   file_path, context, result, histVars, pureVars>>

\* lines 109-111
SaveHeader(t, openOk) ==
    /\ pc[t] = "s_header"
    /\ IF openOk
         THEN /\ analyticsExists' = TRUE
              /\ analytics' = WithHeader(analytics)
              /\ pc' = [pc EXCEPT ![t] = "s_append"]
              /\ UNCHANGED <<idx, result, log>>
         ELSE /\ SaveRaise(t)
              /\ UNCHANGED <<analyticsExists, analytics>>
    /\ UNCHANGED <<files, today, now, ticks, subjects, prospects, report_files, report_content,
                   report_data, file_path, context, csv, rows0, genlog, pureVars>>

\* lines 114-123, and the caller's lines after the call
SaveAppend(t, openOk) ==
    /\ pc[t] = "s_append"
    /\ IF openOk
         THEN /\ analyticsExists' = TRUE
              /\ analytics' = WithRow(analytics, MetaRow(report_data[t], now + 1))
              /\ now' = now + 1
              /\ genlog' = Append(genlog, MetaRow(report_data[t], now + 1))
              /\ log' = [log EXCEPT ![t] = Append(@, Event("meta", idx[t], TRUE, file_path[t]))]
              /\ IF report_data[t].type = "weekly"
                   THEN /\ idx' = [idx EXCEPT ![t] = @ + 1]
                        /\ pc' = [pc EXCEPT ![t] = "w_loop"]
                        /\ UNCHANGED result
                   ELSE /\ pc' = [pc EXCEPT ![t] = "m_return"]
                        /\ result' = [result EXCEPT ![t] =
                              [returned |-> TRUE, success |-> TRUE, reports |-> <<file_path[t]>>]]
                        /\ UNCHANGED idx
         ELSE /\ SaveRaise(t)
              /\ UNCHANGED <<analyticsExists, analytics, now, genlog>>
    /\ UNCHANGED <<files, today, ticks, subjects, prospects, report_files, report_content,
                   report_data, file_path, context, csv, rows0, pureVars>>

\* ---------------------------------------------------------------- endpoints
\* weekly_endpoint / monthly_endpoint send the response; the locals are gone
Respond(t) ==
    /\ pc[t] \in {"w_return", "m_return"}
    /\ pc' = [pc EXCEPT ![t] = "idle"]
    /\ prospects' = [prospects EXCEPT ![t] = <<>>]
    /\ idx' = [idx EXCEPT ![t] = 0]
    /\ report_files' = [report_files EXCEPT ![t] = <<>>]
    /\ report_content' = [report_content EXCEPT ![t] = <<>>]
    /\ report_data' = [report_data EXCEPT ![t] = NoData]
    /\ file_path' = [file_path EXCEPT ![t] = NoPath]
    /\ context' = [context EXCEPT ![t] = NoContext]
    /\ result' = [result EXCEPT ![t] = NoResult]
    /\ csv' = [csv EXCEPT ![t] = NoCsv]
    /\ log' = [log EXCEPT ![t] = <<>>]
    /\ rows0' = [rows0 EXCEPT ![t] = 0]
    /\ UNCHANGED <<fsVars, genlog, pureVars>>

\* The inputs and the faults a specification lets the environment choose:
\*   tables, limits: the prospects CSV and the --prospects value
\*   fmt: whether formatting the context succeeds; open: whether open() succeeds
\*   chunks: how many of the three writes reach a report file
\*   single: the behaviour holds one request (it uses up the subjects)
Step(t, E) ==
    \/ \E limit \in E.limits, readOk \in BOOLEAN, table \in E.tables :
          WeeklyRequest(t, limit, readOk, table, E.single)
    \/ \E fmtOk \in E.fmt, api \in ApiOutcomes : WeeklyGenerate(t, fmtOk, api)
    \/ \E openOk \in E.open, k \in E.chunks : WeeklyWrite(t, openOk, k)
    \/ WeeklyDone(t)
    \/ \E sector \in SectorArgs, readOk \in BOOLEAN, table \in MarketTables,
          industryOk \in BOOLEAN :
          MonthlyRequest(t, sector, readOk, table, industryOk, E.single)
    \/ \E fmtOk \in E.fmt, api \in ApiOutcomes : MonthlyGenerate(t, fmtOk, api)
    \/ \E openOk \in E.open, k \in E.chunks : MonthlyWrite(t, openOk, k)
    \/ SaveExists(t)
    \/ \E openOk \in E.open : SaveHeader(t, openOk)
    \/ \E openOk \in E.open : SaveAppend(t, openOk)
    \/ Respond(t)

\* one request at a time (the CLI, or one webhook trigger at a time), every fault
EnvSeq ==
    [tables |-> ProspectTables({NaN, <<"a">>, <<"a", " ", "b">>}, {1}),
     limits |-> {MaxProspects}, fmt |-> BOOLEAN, open |-> BOOLEAN, chunks |-> {0, 3},
     single |-> FALSE]
Next == Step(1, EnvSeq) \/ Tick
Spec == Init /\ [][Next]_vars

\* one request on one date, every ranking and limit
EnvRank ==
    [tables |-> ProspectTables({<<"a">>, <<"a", " ", "b">>}, TierScores), limits |-> Limits,
     fmt |-> {TRUE}, open |-> BOOLEAN, chunks |-> {3}, single |-> TRUE]
NextRank == Step(1, EnvRank)
SpecRank == Init /\ [][NextRank]_vars

\* two requests served concurrently by the threaded Flask server
EnvConc ==
    [tables |-> ProspectTables({<<"a">>}, {1}), limits |-> {MaxProspects},
     fmt |-> {TRUE}, open |-> BOOLEAN, chunks |-> {3}, single |-> FALSE]
NextConc == (\E t \in Threads : Step(t, EnvConc)) \/ Tick
SpecConc == Init /\ [][NextConc]_vars

\* ---------------------------------------------------------------- sector filter alone
\* lines 283-295 applied to a sector argument and a market table
FilterStrings == SeqsUpTo({"a", "l", "L"}, MaxLen)
PureSectors == {NaN, <<"a">>, <<"a", "l">>, <<"A", "l", "l">>, <<"L", "a">>}
PureTables == SeqsUpTo([sector : PureSectors, average_salary : 0..MaxSalary], MaxRows)

InitPure ==
    /\ InitBase
    /\ pin \in [sector : FilterStrings, table : PureTables]
    /\ pout = NoPure

ApplyFilter ==
    /\ ~pout.done
    /\ pout' = IF FilterRaises(pin.sector, pin.table)
                 THEN [done |-> TRUE, raised |-> TRUE, rows |-> <<>>, avg_salary |-> 0]
                 ELSE [done |-> TRUE, raised |-> FALSE,
                       rows |-> FilterMarket(pin.sector, pin.table),
                       avg_salary |-> MonthlyContext(pin.sector,
                                        FilterMarket(pin.sector, pin.table)).avg_salary]
    /\ UNCHANGED <<fsVars, locVars, histVars, pin>>

NextPure == ApplyFilter
SpecPure == InitPure /\ [][NextPure]_vars

\* ================================================================ claims
PathsOf(events) == [i \in 1..Len(events) |-> events[i].path]
FileOk(t) == SelectSeq(log[t], LAMBDA e : e.ev = "file" /\ e.ok)
MetaOk(t) == SelectSeq(log[t], LAMBDA e : e.ev = "meta" /\ e.ok)
MetaFailed(t) == SelectSeq(log[t], LAMBDA e : e.ev = "meta" /\ ~e.ok)
ApiFailed(t) == SelectSeq(log[t], LAMBDA e : e.ev = "api" /\ ~e.ok)
\* the prospects whose loop body has started, in the order they started
Processed(t) == [k \in 1..Len(Logged(t, "start")) |-> prospects[t][Logged(t, "start")[k].i]]
ErrorTexts == {ErrorText(e) : e \in ApiErrors}
IsFull(content) == Len(content) = 3

\* C1: when the batch returns, every prospect of the ranked list has been
\* processed, in list order, whatever exceptions were caught on the way, and
\* the returned list is exactly the paths of the prospects whose file was
\* written completely, in that order (nothing for a prospect whose file step
\* raised).
C1_BatchSurvivesFailure ==
    pc[1] = "w_return" =>
        /\ Len(Logged(1, "start")) = Len(prospects[1])
        /\ \A k \in 1..Len(prospects[1]) : Logged(1, "start")[k].i = k
        /\ result[1].reports = PathsOf(FileOk(1))

\* C1 witness: the first prospect's file step raised, the second prospect's
\* file was written and is the only path returned.
C1_Witness ==
    /\ pc[1] = "w_return"
    /\ Len(result[1].reports) = 1
    /\ \E a, b \in 1..Len(log[1]) :
          /\ log[1][a].ev = "file" /\ ~log[1][a].ok /\ log[1][a].i = 1
          /\ log[1][b].ev = "file" /\ log[1][b].ok /\ log[1][b].i = 2

\* C2: when the API call raises, generate_report still returns, and what it
\* returns is the error text; the batch writes that text as the body of the
\* subject's report file and adds the path to its list; and the prospect after
\* it is processed.
C2_ApiErrorBecomesReportText ==
    /\ \A a \in 1..Len(log[1]) :
          (log[1][a].ev = "api" /\ ~log[1][a].ok) =>
              /\ a < Len(log[1])
              /\ log[1][a + 1].ev = "text" /\ log[1][a + 1].i = log[1][a].i
    /\ (pc[1] \in {"w_file", "s_exists"} /\ \E a \in 1..Len(log[1]) :
            log[1][a].ev = "api" /\ ~log[1][a].ok /\ log[1][a].i = idx[1])
          => report_content[1] \in ErrorTexts
    /\ (pc[1] = "s_exists" /\ report_data[1].type = "weekly") =>
          /\ files[file_path[1]][3] = report_content[1]
          /\ report_files[1][Len(report_files[1])] = file_path[1]
    /\ pc[1] = "w_return" =>
          \A a \in 1..Len(ApiFailed(1)) :
              ApiFailed(1)[a].i < Len(prospects[1]) =>
                 \E b \in 1..Len(log[1]) :
                    log[1][b].ev = "start" /\ log[1][b].i = ApiFailed(1)[a].i + 1

\* C2 witness: the API raised for the first of two prospects, both reports
\* were written to different files, and the first file's body is the error text.
C2_Witness ==
    /\ pc[1] = "w_return"
    /\ Len(result[1].reports) = 2
    /\ result[1].reports[1] # result[1].reports[2]
    /\ Len(ApiFailed(1)) = 1 /\ ApiFailed(1)[1].i = 1
    /\ files[result[1].reports[1]][3] \in ErrorTexts

\* C4: with one request at a time, the analytics file, once it exists, is one
\* header row followed by one data row per completed save_report_metadata call,
\* in call order; before the first call it does not exist.
C4_OneHeaderThenRowsInOrder ==
    /\ ~analyticsExists => (genlog = <<>> /\ analytics = <<>>)
    /\ analyticsExists =>
          /\ Len(analytics) = 1 + Len(genlog)
          /\ analytics[1] = HeaderRow
          /\ \A i \in 1..Len(genlog) : analytics[i + 1] = genlog[i]
          /\ \A i, j \in 1..Len(genlog) : i < j => genlog[i].timestamp < genlog[j].timestamp

\* C4 witness: a weekly report, then a monthly report: header and two rows.
C4_Witness ==
    /\ pc[1] = "idle"
    /\ analyticsExists
    /\ Len(analytics) = 3
    /\ analytics[2].report_type = "weekly"
    /\ analytics[3].report_type = "monthly"

\* C5 (as claimed): every record ever appended is still in the analytics file,
\* under the one header row, also when two requests run concurrently.
C5_RecordsNeverLost ==
    analyticsExists =>
        /\ \A i \in 1..Len(genlog) : \E j \in 1..Len(analytics) : analytics[j] = genlog[i]
        /\ \A j \in 1..Len(analytics) : (analytics[j] = HeaderRow) <=> (j = 1)

\* C6 (as claimed): no step changes a report file that has been written
\* completely.
C6_ReportFilesImmutable ==
    [][\A p \in DOMAIN files :
          IsFull(files[p]) => (p \in DOMAIN files' /\ files'[p] = files[p])]_vars

\* C10 (as claimed): when the batch returns, it has appended as many records
\* as it returns paths.
C10_RecordsEqualPaths ==
    pc[1] = "w_return" => DataRows - rows0[1] = Len(result[1].reports)

\* C10 (amended): when the batch returns, the records it appended are, in
\* order, one 'weekly' record with success true per prospect whose
\* save_report_metadata call returned, each with a returned path; their number
\* is the number of returned paths minus the number of prospects whose
\* save_report_metadata call raised.
C10_RecordsMatchSavedPaths ==
    pc[1] = "w_return" =>
        LET rows == DataRowsOf(analytics)
            new == SubSeq(rows, rows0[1] + 1, Len(rows))
        IN  /\ Len(new) = Len(result[1].reports) - Len(MetaFailed(1))
            /\ [i \in 1..Len(new) |-> new[i].file_path] = PathsOf(MetaOk(1))
            /\ \A i \in 1..Len(new) :
                  /\ new[i].report_type = "weekly"
                  /\ new[i].success
                  /\ \E j \in 1..Len(result[1].reports) : result[1].reports[j] = new[i].file_path

\* C10 (amended), on the append operations alone, so that it also covers a batch
\* that runs next to another request: the save_report_metadata calls of the
\* batch that returned are as many as the returned paths minus the calls that
\* raised, and each appended a 'weekly' record with success true and a
\* returned path.
C10_AppendsMatchSavedPaths ==
    \A t \in Threads :
        (pc[t] = "w_return") =>
            /\ Len(MetaOk(t)) = Len(result[t].reports) - Len(MetaFailed(t))
            /\ \A i \in 1..Len(MetaOk(t)) :
                  /\ \E j \in 1..Len(result[t].reports) :
                        result[t].reports[j] = MetaOk(t)[i].path
                  /\ \E g \in 1..Len(genlog) :
                        /\ genlog[g].file_path = MetaOk(t)[i].path
                        /\ genlog[g].report_type = "weekly"
                        /\ genlog[g].success

\* C10 witness: two paths are returned, save_report_metadata raised for one of
\* them, and one record was appended.
C10_Witness ==
    /\ pc[1] = "w_return"
    /\ Len(result[1].reports) = 2
    /\ Len(MetaFailed(1)) = 1
    /\ DataRows - rows0[1] = 1

\* the number of rows the request read from the prospects CSV
Available(t) == Len(csv[t].rows)
CountAtLeast(recs, v) == Cardinality({i \in 1..Len(recs) : recs[i].tier_score >= v})
CountOf(recs, r) == Cardinality({i \in 1..Len(recs) : recs[i] = r})

\* C3: for every limit N that is at most the number of available records, the
\* batch returns at most N paths (none when N is negative), each naming an
\* existing file.
C3_AtMostNExistingFiles ==
    (pc[1] = "w_return" /\ csv[1].limit <= Available(1)) =>
        /\ Len(result[1].reports) <= Max(csv[1].limit, 0)
        /\ \A i \in 1..Len(result[1].reports) : result[1].reports[i] \in DOMAIN files

\* C3 restricted to limits from 0 on: for every limit N with 0 <= N <= available
\* records, the batch returns at most N paths, each naming an existing file.
C3_AtMostNWhenNonNegative ==
    (pc[1] = "w_return" /\ 0 <= csv[1].limit /\ csv[1].limit <= Available(1)) =>
        /\ Len(result[1].reports) <= csv[1].limit
        /\ \A i \in 1..Len(result[1].reports) : result[1].reports[i] \in DOMAIN files

\* C3 restricted to limits from 0 on, a case: two records are available, the
\* limit is 1, one path is returned and its file exists.
C3_Witness ==
    /\ pc[1] = "w_return"
    /\ csv[1].limit = 1 /\ Available(1) = 2
    /\ Len(result[1].reports) = 1
    /\ result[1].reports[1] \in DOMAIN files

\* C7 (as claimed): of two prospects processed in one batch the earlier has the
\* strictly greater tier score, and with N records or more available the batch
\* processes N prospects.
C7_StrictlyDescending ==
    /\ \A a, b \in 1..Len(Processed(1)) :
          a < b => Processed(1)[a].tier_score > Processed(1)[b].tier_score
    /\ (pc[1] = "w_return" /\ csv[1].kind = "weekly"
           /\ 0 <= csv[1].limit /\ csv[1].limit <= Available(1)) =>
          Len(Processed(1)) = csv[1].limit

\* C7 (amended): of two prospects processed in one batch the earlier has a tier
\* score greater than or equal to the later one's; the prospects processed are
\* records of the CSV, no record left out has a greater score than a processed
\* one, and for N >= 0 their number is the smaller of N and the number of
\* available records.
C7_DescendingTopScores ==
    /\ \A a, b \in 1..Len(Processed(1)) :
          a < b => Processed(1)[a].tier_score >= Processed(1)[b].tier_score
    /\ (pc[1] = "w_return" /\ csv[1].kind = "weekly") =>
          /\ \A k \in 1..Len(Processed(1)) :
                CountOf(Processed(1), Processed(1)[k]) <= CountOf(csv[1].rows, Processed(1)[k])
          /\ \A v \in TierScores :
                CountAtLeast(Processed(1), v) =
                    Min(Len(Processed(1)), CountAtLeast(csv[1].rows, v))
          /\ csv[1].limit >= 0 => Len(Processed(1)) = Min(csv[1].limit, Available(1))

\* C7 witness: two prospects with the same tier score were processed.
C7_Witness ==
    /\ pc[1] = "w_return"
    /\ Len(Processed(1)) = 2
    /\ Processed(1)[1].tier_score = Processed(1)[2].tier_score
    /\ Processed(1)[1] # Processed(1)[2]

\* the filter string occurs in the field at some offset, both in lower case
Occurs(needle, hay) ==
    \E o \in 0..(Len(hay) - Len(needle)) : \A k \in 1..Len(needle) : hay[o + k] = needle[k]
Included(sector, item) ==
    Occurs([k \in 1..Len(sector) |-> LowerChar(sector[k])],
           [k \in 1..Len(item.sector) |-> LowerChar(item.sector[k])])

\* C8: when the filter is not "all", the filtered market data is exactly the
\* rows whose lower-cased sector contains the lower-cased filter string, in
\* file order; when it is "all" it is every row.
C8_SectorFilter ==
    (pout.done /\ ~pout.raised) =>
        IF pin.sector = STR_all THEN pout.rows = pin.table
        ELSE pout.rows = SelectSeq(pin.table, LAMBDA item : Included(pin.sector, item))

\* C8 witness: the filter "aL" keeps the row of sector "All" and drops the row
\* of sector "a".
C8_Witness ==
    /\ pout.done /\ ~pout.raised
    /\ pin.sector = <<"a", "L">>
    /\ Len(pin.table) = 2
    /\ pin.table[1].sector = <<"A", "l", "l">>
    /\ pin.table[2].sector = <<"a">>
    /\ pout.rows = <<pin.table[1]>>

\* C9: the average salary is 0 when no row passes the filter, and otherwise the
\* greatest integer a with a * n <= sum of the n filtered rows' salaries.
C9_AverageSalary ==
    (pout.done /\ ~pout.raised) =>
        LET n == Len(pout.rows)
            total == SumSalary(pout.rows)
        IN  IF n = 0 THEN pout.avg_salary = 0
            ELSE pout.avg_salary * n <= total /\ total < (pout.avg_salary + 1) * n

\* C9 witness: two rows with salaries 1 and 2 pass the filter; the average is 1.
C9_Witness ==
    /\ pout.done /\ ~pout.raised
    /\ Len(pout.rows) = 2
    /\ pout.rows[1].average_salary = 1 /\ pout.rows[2].average_salary = 2
    /\ pout.avg_salary = 1

\* C9 second case: rows were read, none passes the filter, the average is 0.
C9_EmptyWitness ==
    /\ pout.done /\ ~pout.raised
    /\ Len(pin.table) = 2 /\ pin.table[1].average_salary > 0
    /\ pout.rows = <<>>
    /\ pout.avg_salary = 0
====
